---- MODULE Spec2Model ----
(***************************************************************************)
(* The pediatric organ size calculator of src/app.py as a state machine.   *)
(*                                                                         *)
(* One Streamlit script run is one step.  The state that survives between  *)
(* runs is the cached catalog (norms), the session's selected organ and    *)
(* the widgets' values; the page's result area (out) is rebuilt by every   *)
(* run and is filled only by the run in which "Compute Z-Score" was        *)
(* pressed.  The sex selector and the body-surface-area expander feed      *)
(* nothing into the score and are left out.  first_score is a history      *)
(* variable of the verification, not state of the program.                 *)
(*                                                                         *)
(* Numbers.  A Python float is an IEEE-754 binary64 value: a finite value  *)
(* (-1)^neg * m * 2^e held exactly, an infinity or a NaN.  Every operation *)
(* rounds its exact result as the hardware does, so 0.07 * 10 is           *)
(* 0.7000000000000001 and 0.2 * 12 + 0.6 is 3.0000000000000004.  Table     *)
(* cells are floats as well (pandas reads a column of whole numbers as     *)
(* int64, whose arithmetic with floats is the floats').                    *)
(*                                                                         *)
(* Text.  A Python str is the sequence of its Unicode code points: "2y3m"  *)
(* is <<50, 121, 51, 109>>.                                                *)
(***************************************************************************)
EXTENDS Integers, Sequences, FiniteSets, TLC

VARIABLES norms, selected_organ, age_input, measurement_value, unit, out, first_score

vars == <<norms, selected_organ, age_input, measurement_value, unit, out, first_score>>

(***************************************************************************)
(* Bounds of the model.                                                    *)
(***************************************************************************)
\* Longest age text drawn from the free alphabet (InitParse).
MaxLen == 4
\* Most rows of a table drawn freely (InitSelect).
MaxRows == 3

(***************************************************************************)
(* Naturals of any size: limbs of 15 bits, least significant first, no     *)
(* zero limb at the top (0 is <<>>).  They carry the exact intermediate    *)
(* results that IEEE-754 arithmetic rounds.                                *)
(***************************************************************************)
Base == 32768

Abs(i) == IF i < 0 THEN -i ELSE i

Max(a, b) == IF a >= b THEN a ELSE b

Min(a, b) == IF a <= b THEN a ELSE b

Limb(a, i) == IF i >= 1 /\ i <= Len(a) THEN a[i] ELSE 0

\* The position of the top nonzero limb (0 when there is none).
TopLimb(a) ==
    IF \A i \in 1..Len(a) : a[i] = 0 THEN 0
    ELSE CHOOSE i \in 1..Len(a) : a[i] # 0 /\ \A j \in (i + 1)..Len(a) : a[j] = 0

BTrim(a) == SubSeq(a, 1, TopLimb(a))

BFromInt(n) ==
    BTrim(<<n % Base, (n \div Base) % Base, n \div (Base * Base)>>)

\* The carry into limb i of a + b: some lower limb overflows and every limb
\* between passes the carry on.
Carry(a, b, i) ==
    \E j \in 1..(i - 1) :
        /\ Limb(a, j) + Limb(b, j) >= Base
        /\ \A k \in (j + 1)..(i - 1) : Limb(a, k) + Limb(b, k) = Base - 1

SumLimbs(a, b, n) ==
    SubSeq([i \in 1..n |->
               (Limb(a, i) + Limb(b, i) + (IF Carry(a, b, i) THEN 1 ELSE 0)) % Base],
           1, n)

BAdd(a, b) ==
    IF a = <<>> THEN b
    ELSE IF b = <<>> THEN a
    ELSE BTrim(SumLimbs(a, b, Max(Len(a), Len(b)) + 1))

\* The borrow from limb i of a - b.
Borrow(a, b, i) ==
    \E j \in 1..(i - 1) :
        /\ Limb(a, j) < Limb(b, j)
        /\ \A k \in (j + 1)..(i - 1) : Limb(a, k) = Limb(b, k)

\* a - b for a >= b.
BSub(a, b) ==
    IF a = b THEN <<>>
    ELSE
    BTrim(SubSeq([i \in 1..Len(a) |->
                     (a[i] - Limb(b, i) - (IF Borrow(a, b, i) THEN 1 ELSE 0)) % Base],
                 1, Len(a)))

BLess(a, b) ==
    \/ Len(a) < Len(b)
    \/ /\ Len(a) = Len(b)
       /\ \E i \in 1..Len(a) :
             a[i] < b[i] /\ \A j \in (i + 1)..Len(a) : a[j] = b[j]

\* a * 2^n.
BShl(a, n) ==
    IF a = <<>> \/ n = 0 THEN a
    ELSE
    BTrim(SubSeq([i \in 1..(Len(a) + (n \div 15) + 1) |->
                     ((Limb(a, i - (n \div 15)) * 2 ^ (n % 15)) % Base)
                         + (Limb(a, i - (n \div 15) - 1) \div 2 ^ (15 - (n % 15)))],
                 1, Len(a) + (n \div 15) + 1))

\* a div 2^n.
BShr(a, n) ==
    IF a = <<>> \/ n = 0 THEN a
    ELSE
    BTrim(SubSeq([i \in 1..Len(a) |->
                     (Limb(a, i + (n \div 15)) \div 2 ^ (n % 15))
                         + ((Limb(a, i + (n \div 15) + 1) % 2 ^ (n % 15)) * 2 ^ (15 - (n % 15)))],
                 1, Len(a)))

\* a * k for 0 <= k < Base: the low halves of the limbs' products plus
\* their high halves one limb up.
BMulSmall(a, k) ==
    IF a = <<>> \/ k = 0 THEN <<>>
    ELSE
    BAdd(SubSeq([i \in 1..Len(a) |-> (a[i] * k) % Base], 1, Len(a)),
         <<0>> \o SubSeq([i \in 1..Len(a) |-> (a[i] * k) \div Base], 1, Len(a)))

RECURSIVE BMulRange(_, _, _, _)
\* a * (limbs lo..hi of b, in place).
BMulRange(a, b, lo, hi) ==
    IF lo = hi THEN [i \in 1..(lo - 1) |-> 0] \o BMulSmall(a, b[lo])
    ELSE BAdd(BMulRange(a, b, lo, (lo + hi) \div 2),
              BMulRange(a, b, ((lo + hi) \div 2) + 1, hi))

BMul(a, b) == IF a = <<>> \/ b = <<>> THEN <<>> ELSE BTrim(BMulRange(a, b, 1, Len(b)))

BitLenLimb(x) == Cardinality({k \in 0..14 : 2 ^ k <= x})

BBitLen(a) == IF a = <<>> THEN 0 ELSE (15 * (Len(a) - 1)) + BitLenLimb(a[Len(a)])

\* The number of zero bits below the lowest one bit of a > 0.
LowZeroLimbs(a) == Cardinality({i \in 1..Len(a) : \A j \in 1..i : a[j] = 0})

LowZeroBits(x) == Cardinality({k \in 1..14 : x % 2 ^ k = 0})

TrailingZeros(a) == 15 * LowZeroLimbs(a) + LowZeroBits(a[LowZeroLimbs(a) + 1])

\* The quotient digit floor(cur / d) for cur < d * Base and d with its top
\* bit set in its top limb: the estimate from the leading limbs is at most
\* two too large (Knuth, TAOCP 4.3.1, Theorem B).
Estimate(cur, d) ==
    Min(Base - 1, (Limb(cur, Len(d) + 1) * Base + Limb(cur, Len(d))) \div d[Len(d)])

Digit(cur, d, g) ==
    IF ~BLess(cur, BMulSmall(d, g)) THEN g
    ELSE IF ~BLess(cur, BMulSmall(d, g - 1)) THEN g - 1
    ELSE g - 2

\* One step of long division: the digit of the limb x brought down to the
\* remainder st[2] < d is put below the digits st[1] of the limbs above.
DivDigit(d, q, cur) ==
    IF BLess(cur, d) THEN <<<<0>> \o q, cur>>
    ELSE <<<<Digit(cur, d, Estimate(cur, d))>> \o q,
           BSub(cur, BMulSmall(d, Digit(cur, d, Estimate(cur, d))))>>

DivStep(d, x, st) == DivDigit(d, st[1], BTrim(<<x>> \o st[2]))

RECURSIVE BDivRange(_, _, _, _, _)
\* The limbs hi down to lo after the limbs above: nothing is left to divide
\* when the remainder and these limbs are all zero.
BDivLower(n, d, hi, lo, st) ==
    IF st[2] = <<>> /\ \A i \in lo..hi : n[i] = 0
    THEN <<[i \in 1..(hi - lo + 1) |-> 0] \o st[1], <<>>>>
    ELSE BDivRange(n, d, hi, lo, st)

\* Long division over the limbs hi down to lo of n, the upper half first.
BDivRange(n, d, hi, lo, st) ==
    IF hi = lo THEN DivStep(d, n[hi], st)
    ELSE BDivLower(n, d, (hi + lo) \div 2, lo,
                   BDivRange(n, d, hi, ((hi + lo) \div 2) + 1, st))

TrimmedQuotient(st) == <<BTrim(st[1]), st[2]>>

\* <<n div d, n mod d>> for d with its top bit set in its top limb.
BDivMod(n, d) ==
    IF Len(n) < Len(d) THEN <<<<>>, n>>
    ELSE TrimmedQuotient(BDivRange(n, d, Len(n) - Len(d) + 1, 1,
                                   <<<<>>, SubSeq(n, Len(n) - Len(d) + 2, Len(n))>>))

RECURSIVE BPow10(_)
Square(a) == BMul(a, a)

BPow10(k) ==
    IF k <= 4 THEN <<10 ^ k>>
    ELSE IF k % 2 = 0 THEN Square(BPow10(k \div 2))
    ELSE BMulSmall(Square(BPow10(k \div 2)), 10)

(***************************************************************************)
(* Python floats: IEEE-754 binary64.  A finite value is held exactly as    *)
(* (-1)^neg * m * 2^e with m odd (m = <<>>, e = 0 for the two zeros); every *)
(* operation computes its exact result and rounds it to the nearest value  *)
(* of 53 significant bits, ties to even, as the hardware does.             *)
(***************************************************************************)
Fin(neg, m, e) == [kind |-> "fin", neg |-> neg, m |-> m, e |-> e]

Inf(neg) == [kind |-> "inf", neg |-> neg, m |-> <<>>, e |-> 0]

NaN == [kind |-> "nan", neg |-> FALSE, m |-> <<>>, e |-> 0]

SignedZero(neg) == Fin(neg, <<>>, 0)

Zero == SignedZero(FALSE)

IsZero(x) == x.kind = "fin" /\ x.m = <<>>

\* q * 2^e with the factors of two moved from q into the exponent.
Odd(neg, q, e) ==
    IF q = <<>> THEN SignedZero(neg)
    ELSE Fin(neg, BShr(q, TrailingZeros(q)), e + TrailingZeros(q))

\* Overflow past the largest finite value gives an infinity.
Finish(neg, e, q) == IF BBitLen(q) + e > 1024 THEN Inf(neg) ELSE Odd(neg, q, e)

\* Round to nearest, ties to even, by the remainder r of the division by d.
RoundsUp(q, r, d) ==
    \/ BLess(d, BShl(r, 1))
    \/ BShl(r, 1) = d /\ q # <<>> /\ q[1] % 2 = 1

RoundQR(neg, e, d, qr) ==
    IF qr[2] = <<>> THEN Finish(neg, e, qr[1])
    ELSE IF RoundsUp(qr[1], qr[2], d) THEN Finish(neg, e, BAdd(qr[1], <<1>>))
    ELSE Finish(neg, e, qr[1])

RoundDiv(neg, e, num, d) == RoundQR(neg, e, d, BDivMod(num, d))

\* The shift that moves the top bit of a number of b bits to the top of its
\* top limb.
TopShift(b) == (15 - (b % 15)) % 15

\* lsb is the exponent of the result's last bit relative to e: n / den is
\* scaled by 2^-lsb (a shift when den is 1), and the divisor's top bit is
\* moved to the top of its top limb, the dividend with it.
RoundLsb(neg, n, den, e, lsb) ==
    IF den = <<1>> /\ lsb > 0
    THEN RoundQR(neg, e + lsb, BShl(<<1>>, lsb),
                 <<BShr(n, lsb), BSub(n, BShl(BShr(n, lsb), lsb))>>)
    ELSE IF lsb >= 0
    THEN RoundDiv(neg, e + lsb, BShl(n, TopShift(BBitLen(den) + lsb)),
                  BShl(den, lsb + TopShift(BBitLen(den) + lsb)))
    ELSE RoundDiv(neg, e + lsb, BShl(n, TopShift(BBitLen(den)) - lsb),
                  BShl(den, TopShift(BBitLen(den))))

\* floor(log2(n / den)), t being BBitLen(n) - BBitLen(den).
FloorLog2(n, den, t) ==
    IF (IF t >= 0 THEN BLess(n, BShl(den, t)) ELSE BLess(BShl(n, -t), den))
    THEN t - 1 ELSE t

\* The float nearest to n / den * 2^e (n, den > 0): 53 significant bits, or
\* fewer below 2^-1022 where the last bit stays at 2^-1074.  A ratio that
\* is a float already needs no rounding.
RoundRatio(neg, n, den, e) ==
    IF den = <<1>> /\ BBitLen(n) <= 53 /\ e >= -1074 /\ BBitLen(n) + e <= 1024
    THEN Odd(neg, n, e)
    ELSE IF /\ Len(n) = 1 /\ Len(den) = 1 /\ n[1] % den[1] = 0
            /\ e >= -1074 /\ e <= 1000
    THEN Odd(neg, <<n[1] \div den[1]>>, e)
    ELSE RoundLsb(neg, n, den, e,
                  Max(FloorLog2(n, den, BBitLen(n) - BBitLen(den)) - 52 + e, -1074) - e)

FromInt(i) == Odd(i < 0, BFromInt(Abs(i)), 0)

FNeg(a) == IF a.kind = "nan" THEN a ELSE [a EXCEPT !.neg = ~a.neg]

\* x = m_a * 2^(e_a - e) and y = m_b * 2^(e_b - e) for e the lesser exponent.
AddAligned(a, b, e, x, y) ==
    IF a.neg = b.neg THEN RoundRatio(a.neg, BAdd(x, y), <<1>>, e)
    ELSE IF x = y THEN Zero
    ELSE IF BLess(y, x) THEN RoundRatio(a.neg, BSub(x, y), <<1>>, e)
    ELSE RoundRatio(b.neg, BSub(y, x), <<1>>, e)

\* An operand more than 64 binary places below the other changes no bit of
\* the rounded sum.
FAdd(a, b) ==
    IF a.kind = "nan" \/ b.kind = "nan" THEN NaN
    ELSE IF a.kind = "inf"
    THEN (IF b.kind = "inf" /\ a.neg # b.neg THEN NaN ELSE a)
    ELSE IF b.kind = "inf" THEN b
    ELSE IF IsZero(a) THEN (IF IsZero(b) THEN SignedZero(a.neg /\ b.neg) ELSE b)
    ELSE IF IsZero(b) THEN a
    ELSE IF BBitLen(a.m) + a.e > BBitLen(b.m) + b.e + 64 THEN a
    ELSE IF BBitLen(b.m) + b.e > BBitLen(a.m) + a.e + 64 THEN b
    ELSE AddAligned(a, b, Min(a.e, b.e), BShl(a.m, a.e - Min(a.e, b.e)),
                    BShl(b.m, b.e - Min(a.e, b.e)))

FSub(a, b) == FAdd(a, FNeg(b))

FMul(a, b) ==
    IF a.kind = "nan" \/ b.kind = "nan" THEN NaN
    ELSE IF a.kind = "inf" \/ b.kind = "inf"
    THEN (IF IsZero(a) \/ IsZero(b) THEN NaN ELSE Inf(a.neg # b.neg))
    ELSE IF IsZero(a) \/ IsZero(b) THEN SignedZero(a.neg # b.neg)
    ELSE RoundRatio(a.neg # b.neg, BMul(a.m, b.m), <<1>>, a.e + b.e)

\* a / b as numpy divides float64 scalars: a zero divisor gives inf, -inf or
\* nan and does not raise.
FDiv(a, b) ==
    IF a.kind = "nan" \/ b.kind = "nan" THEN NaN
    ELSE IF a.kind = "inf"
    THEN (IF b.kind = "inf" THEN NaN ELSE Inf(a.neg # b.neg))
    ELSE IF b.kind = "inf" THEN SignedZero(a.neg # b.neg)
    ELSE IF IsZero(b) THEN (IF IsZero(a) THEN NaN ELSE Inf(a.neg # b.neg))
    ELSE IF IsZero(a) THEN SignedZero(a.neg # b.neg)
    ELSE RoundRatio(a.neg # b.neg, a.m, b.m, a.e - b.e)

\* |a| < |b| for finite nonzero a, b.
MagLess(a, b) ==
    IF BBitLen(a.m) + a.e # BBitLen(b.m) + b.e
    THEN BBitLen(a.m) + a.e < BBitLen(b.m) + b.e
    ELSE BLess(BShl(a.m, a.e - Min(a.e, b.e)), BShl(b.m, b.e - Min(a.e, b.e)))

FLess(a, b) ==
    IF a.kind = "nan" \/ b.kind = "nan" THEN FALSE
    ELSE IF IsZero(a) /\ IsZero(b) THEN FALSE
    ELSE IF a.neg # b.neg THEN a.neg
    ELSE IF a.kind = "inf" \/ b.kind = "inf"
    THEN (IF a.neg THEN b.kind # "inf" ELSE a.kind # "inf")
    ELSE IF IsZero(a) THEN ~b.neg
    ELSE IF IsZero(b) THEN a.neg
    ELSE IF a.neg THEN MagLess(b, a) ELSE MagLess(a, b)

FEq(a, b) ==
    /\ a.kind # "nan" /\ b.kind # "nan"
    /\ a = b \/ (IsZero(a) /\ IsZero(b))

FLeq(a, b) == FLess(a, b) \/ FEq(a, b)

(***************************************************************************)
(* Decimal digits and numbers: what float(s), int(x) and f"{x:.1f}"        *)
(* convert.  A digit sequence holds values 0..9, most significant first.   *)
(***************************************************************************)
\* <<n div d, n mod d>> for any d > 0.
Unshifted(qr, s) == <<qr[1], BShr(qr[2], s)>>

BDivModAny(n, d) ==
    Unshifted(BDivMod(BShl(n, TopShift(BBitLen(d))), BShl(d, TopShift(BBitLen(d)))),
              TopShift(BBitLen(d)))

\* The value of a natural below Base * Base.
BToInt(a) == Limb(a, 1) + (Base * Limb(a, 2))

RECURSIVE BDecimalPad(_, _)
SplitDecimal(qr, nd) ==
    BDecimalPad(qr[1], nd - (nd \div 2)) \o BDecimalPad(qr[2], nd \div 2)

\* The nd decimal digits of a < 10^nd, zeros at the front included.
BDecimalPad(a, nd) ==
    IF nd <= 9 THEN SubSeq([k \in 1..nd |-> (BToInt(a) \div 10 ^ (nd - k)) % 10], 1, nd)
    ELSE SplitDecimal(BDivModAny(a, BPow10(nd \div 2)), nd)

\* No natural of b bits has more decimal digits than this.
DigitBound(b) == ((b * 30103) \div 100000) + 1

\* A digit sequence without its zeros at the front (one digit is kept).
DropZeros(ds) ==
    IF \A i \in 1..Len(ds) : ds[i] = 0 THEN <<0>>
    ELSE SubSeq(ds, CHOOSE i \in 1..Len(ds) : ds[i] # 0 /\ \A j \in 1..(i - 1) : ds[j] = 0,
                Len(ds))

\* The decimal digits of a.
BDecimal(a) == DropZeros(BDecimalPad(a, DigitBound(BBitLen(a))))

DigitAt(ds, i) == IF i >= 1 THEN ds[i] ELSE 0

\* The value of at most four digits.
SmallValue(ds) ==
    DigitAt(ds, Len(ds)) + (10 * DigitAt(ds, Len(ds) - 1))
        + (100 * DigitAt(ds, Len(ds) - 2)) + (1000 * DigitAt(ds, Len(ds) - 3))

RECURSIVE DigitsValue(_)
\* The natural a digit sequence denotes.
DigitsValue(ds) ==
    IF Len(ds) <= 4 THEN BFromInt(SmallValue(ds))
    ELSE BAdd(BMul(DigitsValue(SubSeq(ds, 1, Len(ds) \div 2)),
                   BPow10(Len(ds) - (Len(ds) \div 2))),
              DigitsValue(SubSeq(ds, (Len(ds) \div 2) + 1, Len(ds))))

\* The float nearest to (-1)^neg * sig * 10^x for digits sig that start with
\* a nonzero digit: infinite above the largest float, zero below half the
\* least one.
DecimalToFloat(neg, sig, x) ==
    IF Len(sig) + x > 310 THEN Inf(neg)
    ELSE IF Len(sig) + x < -330 THEN SignedZero(neg)
    ELSE IF x >= 0 THEN RoundRatio(neg, BMul(DigitsValue(sig), BPow10(x)), <<1>>, 0)
    ELSE RoundRatio(neg, DigitsValue(sig), BPow10(-x), 0)

\* |x| rounded to a whole number, ties to even, for finite x = m * 2^e.
RoundedShift(q, r, d) == IF r # <<>> /\ RoundsUp(q, r, d) THEN BAdd(q, <<1>>) ELSE q

RoundHalfEven(m, e) ==
    IF e >= 0 THEN BShl(m, e)
    ELSE RoundedShift(BShr(m, -e), BSub(m, BShl(BShr(m, -e), -e)), BShl(<<1>>, -e))

\* |x| with its fraction cut off.
Truncated(m, e) == IF e >= 0 THEN BShl(m, e) ELSE BShr(m, -e)

(***************************************************************************)
(* Text helpers: str.strip, str.lower, "c in s", s.split(c, 1), float(s).  *)
(***************************************************************************)
\* The code points str.isspace holds for; str.strip() removes them.
Whitespace ==
    {9, 10, 11, 12, 13, 28, 29, 30, 31, 32, 133, 160, 5760, 8232, 8233, 8239,
     8287, 12288} \cup (8192..8202)

\* s without the code points of W at its two ends.
StripOf(s, W) ==
    IF \A i \in 1..Len(s) : s[i] \in W THEN <<>>
    ELSE SubSeq(s,
                CHOOSE i \in 1..Len(s) : s[i] \notin W /\ \A j \in 1..(i - 1) : s[j] \in W,
                CHOOSE i \in 1..Len(s) : s[i] \notin W /\ \A j \in (i + 1)..Len(s) : s[j] \in W)

Strip(s) == StripOf(s, Whitespace)

\* The letters with a lower case letter of their own (Unicode 14), in runs
\* <<first, last, step, shift>>: every step-th code point from first to last
\* lowers to itself plus shift.
LowerRuns ==
    { <<65, 90, 1, 32>>, <<192, 214, 1, 32>>, <<216, 222, 1, 32>>,
      <<256, 302, 2, 1>>, <<306, 310, 2, 1>>, <<313, 327, 2, 1>>,
      <<330, 374, 2, 1>>, <<376, 376, 1, -121>>, <<377, 381, 2, 1>>,
      <<385, 385, 1, 210>>, <<386, 388, 2, 1>>, <<390, 390, 1, 206>>,
      <<391, 391, 1, 1>>, <<393, 394, 1, 205>>, <<395, 395, 1, 1>>,
      <<398, 398, 1, 79>>, <<399, 399, 1, 202>>, <<400, 400, 1, 203>>,
      <<401, 401, 1, 1>>, <<403, 403, 1, 205>>, <<404, 404, 1, 207>>,
      <<406, 406, 1, 211>>, <<407, 407, 1, 209>>, <<408, 408, 1, 1>>,
      <<412, 412, 1, 211>>, <<413, 413, 1, 213>>, <<415, 415, 1, 214>>,
      <<416, 420, 2, 1>>, <<422, 422, 1, 218>>, <<423, 423, 1, 1>>,
      <<425, 425, 1, 218>>, <<428, 428, 1, 1>>, <<430, 430, 1, 218>>,
      <<431, 431, 1, 1>>, <<433, 434, 1, 217>>, <<435, 437, 2, 1>>,
      <<439, 439, 1, 219>>, <<440, 440, 1, 1>>, <<444, 444, 1, 1>>,
      <<452, 452, 1, 2>>, <<453, 453, 1, 1>>, <<455, 455, 1, 2>>,
      <<456, 456, 1, 1>>, <<458, 458, 1, 2>>, <<459, 475, 2, 1>>,
      <<478, 494, 2, 1>>, <<497, 497, 1, 2>>, <<498, 500, 2, 1>>,
      <<502, 502, 1, -97>>, <<503, 503, 1, -56>>, <<504, 542, 2, 1>>,
      <<544, 544, 1, -130>>, <<546, 562, 2, 1>>, <<570, 570, 1, 10795>>,
      <<571, 571, 1, 1>>, <<573, 573, 1, -163>>, <<574, 574, 1, 10792>>,
      <<577, 577, 1, 1>>, <<579, 579, 1, -195>>, <<580, 580, 1, 69>>,
      <<581, 581, 1, 71>>, <<582, 590, 2, 1>>, <<880, 882, 2, 1>>,
      <<886, 886, 1, 1>>, <<895, 895, 1, 116>>, <<902, 902, 1, 38>>,
      <<904, 906, 1, 37>>, <<908, 908, 1, 64>>, <<910, 911, 1, 63>>,
      <<913, 929, 1, 32>>, <<931, 939, 1, 32>>, <<975, 975, 1, 8>>,
      <<984, 1006, 2, 1>>, <<1012, 1012, 1, -60>>, <<1015, 1015, 1, 1>>,
      <<1017, 1017, 1, -7>>, <<1018, 1018, 1, 1>>, <<1021, 1023, 1, -130>>,
      <<1024, 1039, 1, 80>>, <<1040, 1071, 1, 32>>, <<1120, 1152, 2, 1>>,
      <<1162, 1214, 2, 1>>, <<1216, 1216, 1, 15>>, <<1217, 1229, 2, 1>>,
      <<1232, 1326, 2, 1>>, <<1329, 1366, 1, 48>>, <<4256, 4293, 1, 7264>>,
      <<4295, 4295, 1, 7264>>, <<4301, 4301, 1, 7264>>,
      <<5024, 5103, 1, 38864>>, <<5104, 5109, 1, 8>>,
      <<7312, 7354, 1, -3008>>, <<7357, 7359, 1, -3008>>,
      <<7680, 7828, 2, 1>>, <<7838, 7838, 1, -7615>>, <<7840, 7934, 2, 1>>,
      <<7944, 7951, 1, -8>>, <<7960, 7965, 1, -8>>, <<7976, 7983, 1, -8>>,
      <<7992, 7999, 1, -8>>, <<8008, 8013, 1, -8>>, <<8025, 8031, 2, -8>>,
      <<8040, 8047, 1, -8>>, <<8072, 8079, 1, -8>>, <<8088, 8095, 1, -8>>,
      <<8104, 8111, 1, -8>>, <<8120, 8121, 1, -8>>, <<8122, 8123, 1, -74>>,
      <<8124, 8124, 1, -9>>, <<8136, 8139, 1, -86>>, <<8140, 8140, 1, -9>>,
      <<8152, 8153, 1, -8>>, <<8154, 8155, 1, -100>>, <<8168, 8169, 1, -8>>,
      <<8170, 8171, 1, -112>>, <<8172, 8172, 1, -7>>, <<8184, 8185, 1, -128>>,
      <<8186, 8187, 1, -126>>, <<8188, 8188, 1, -9>>,
      <<8486, 8486, 1, -7517>>, <<8490, 8490, 1, -8383>>,
      <<8491, 8491, 1, -8262>>, <<8498, 8498, 1, 28>>, <<8544, 8559, 1, 16>>,
      <<8579, 8579, 1, 1>>, <<9398, 9423, 1, 26>>, <<11264, 11311, 1, 48>>,
      <<11360, 11360, 1, 1>>, <<11362, 11362, 1, -10743>>,
      <<11363, 11363, 1, -3814>>, <<11364, 11364, 1, -10727>>,
      <<11367, 11371, 2, 1>>, <<11373, 11373, 1, -10780>>,
      <<11374, 11374, 1, -10749>>, <<11375, 11375, 1, -10783>>,
      <<11376, 11376, 1, -10782>>, <<11378, 11378, 1, 1>>,
      <<11381, 11381, 1, 1>>, <<11390, 11391, 1, -10815>>,
      <<11392, 11490, 2, 1>>, <<11499, 11501, 2, 1>>, <<11506, 11506, 1, 1>>,
      <<42560, 42604, 2, 1>>, <<42624, 42650, 2, 1>>, <<42786, 42798, 2, 1>>,
      <<42802, 42862, 2, 1>>, <<42873, 42875, 2, 1>>,
      <<42877, 42877, 1, -35332>>, <<42878, 42886, 2, 1>>,
      <<42891, 42891, 1, 1>>, <<42893, 42893, 1, -42280>>,
      <<42896, 42898, 2, 1>>, <<42902, 42920, 2, 1>>,
      <<42922, 42922, 1, -42308>>, <<42923, 42923, 1, -42319>>,
      <<42924, 42924, 1, -42315>>, <<42925, 42925, 1, -42305>>,
      <<42926, 42926, 1, -42308>>, <<42928, 42928, 1, -42258>>,
      <<42929, 42929, 1, -42282>>, <<42930, 42930, 1, -42261>>,
      <<42931, 42931, 1, 928>>, <<42932, 42946, 2, 1>>,
      <<42948, 42948, 1, -48>>, <<42949, 42949, 1, -42307>>,
      <<42950, 42950, 1, -35384>>, <<42951, 42953, 2, 1>>,
      <<42960, 42960, 1, 1>>, <<42966, 42968, 2, 1>>, <<42997, 42997, 1, 1>>,
      <<65313, 65338, 1, 32>>, <<66560, 66599, 1, 40>>,
      <<66736, 66771, 1, 40>>, <<66928, 66938, 1, 39>>,
      <<66940, 66954, 1, 39>>, <<66956, 66962, 1, 39>>,
      <<66964, 66965, 1, 39>>, <<68736, 68786, 1, 64>>,
      <<71840, 71871, 1, 32>>, <<93760, 93791, 1, 32>>,
      <<125184, 125217, 1, 34>> }

InRun(c, r) == c >= r[1] /\ c <= r[2] /\ (c - r[1]) % r[3] = 0

LowerChar(c) ==
    IF \E r \in LowerRuns : InRun(c, r)
    THEN c + (CHOOSE r \in LowerRuns : InRun(c, r))[4]
    ELSE c

\* Ranges <<first, last>> of the cased code points that are not
\* case-ignorable, and of the case-ignorable ones.
CasedRanges ==
    { <<65, 90>>, <<97, 122>>, <<170, 170>>, <<181, 181>>, <<186, 186>>,
      <<192, 214>>, <<216, 246>>, <<248, 442>>, <<444, 447>>, <<452, 659>>,
      <<661, 687>>, <<880, 883>>, <<886, 887>>, <<891, 893>>, <<895, 895>>,
      <<902, 902>>, <<904, 906>>, <<908, 908>>, <<910, 929>>, <<931, 1013>>,
      <<1015, 1153>>, <<1162, 1327>>, <<1329, 1366>>, <<1376, 1416>>,
      <<4256, 4293>>, <<4295, 4295>>, <<4301, 4301>>, <<4304, 4346>>,
      <<4349, 4351>>, <<5024, 5109>>, <<5112, 5117>>, <<7296, 7304>>,
      <<7312, 7354>>, <<7357, 7359>>, <<7424, 7467>>, <<7531, 7543>>,
      <<7545, 7578>>, <<7680, 7957>>, <<7960, 7965>>, <<7968, 8005>>,
      <<8008, 8013>>, <<8016, 8023>>, <<8025, 8025>>, <<8027, 8027>>,
      <<8029, 8029>>, <<8031, 8061>>, <<8064, 8116>>, <<8118, 8124>>,
      <<8126, 8126>>, <<8130, 8132>>, <<8134, 8140>>, <<8144, 8147>>,
      <<8150, 8155>>, <<8160, 8172>>, <<8178, 8180>>, <<8182, 8188>>,
      <<8450, 8450>>, <<8455, 8455>>, <<8458, 8467>>, <<8469, 8469>>,
      <<8473, 8477>>, <<8484, 8484>>, <<8486, 8486>>, <<8488, 8488>>,
      <<8490, 8493>>, <<8495, 8500>>, <<8505, 8505>>, <<8508, 8511>>,
      <<8517, 8521>>, <<8526, 8526>>, <<8544, 8575>>, <<8579, 8580>>,
      <<9398, 9449>>, <<11264, 11387>>, <<11390, 11492>>, <<11499, 11502>>,
      <<11506, 11507>>, <<11520, 11557>>, <<11559, 11559>>, <<11565, 11565>>,
      <<42560, 42605>>, <<42624, 42651>>, <<42786, 42863>>, <<42865, 42887>>,
      <<42891, 42894>>, <<42896, 42954>>, <<42960, 42961>>, <<42963, 42963>>,
      <<42965, 42969>>, <<42997, 42998>>, <<43002, 43002>>, <<43824, 43866>>,
      <<43872, 43880>>, <<43888, 43967>>, <<64256, 64262>>, <<64275, 64279>>,
      <<65313, 65338>>, <<65345, 65370>>, <<66560, 66639>>, <<66736, 66771>>,
      <<66776, 66811>>, <<66928, 66938>>, <<66940, 66954>>, <<66956, 66962>>,
      <<66964, 66965>>, <<66967, 66977>>, <<66979, 66993>>, <<66995, 67001>>,
      <<67003, 67004>>, <<68736, 68786>>, <<68800, 68850>>, <<71840, 71903>>,
      <<93760, 93823>>, <<119808, 119892>>, <<119894, 119964>>,
      <<119966, 119967>>, <<119970, 119970>>, <<119973, 119974>>,
      <<119977, 119980>>, <<119982, 119993>>, <<119995, 119995>>,
      <<119997, 120003>>, <<120005, 120069>>, <<120071, 120074>>,
      <<120077, 120084>>, <<120086, 120092>>, <<120094, 120121>>,
      <<120123, 120126>>, <<120128, 120132>>, <<120134, 120134>>,
      <<120138, 120144>>, <<120146, 120485>>, <<120488, 120512>>,
      <<120514, 120538>>, <<120540, 120570>>, <<120572, 120596>>,
      <<120598, 120628>>, <<120630, 120654>>, <<120656, 120686>>,
      <<120688, 120712>>, <<120714, 120744>>, <<120746, 120770>>,
      <<120772, 120779>>, <<122624, 122633>>, <<122635, 122654>>,
      <<125184, 125251>>, <<127280, 127305>>, <<127312, 127337>>,
      <<127344, 127369>> }

CaseIgnorableRanges ==
    { <<39, 39>>, <<46, 46>>, <<58, 58>>, <<94, 94>>, <<96, 96>>,
      <<168, 168>>, <<173, 173>>, <<175, 175>>, <<180, 180>>, <<183, 184>>,
      <<688, 879>>, <<884, 885>>, <<890, 890>>, <<900, 901>>, <<903, 903>>,
      <<1155, 1161>>, <<1369, 1369>>, <<1375, 1375>>, <<1425, 1469>>,
      <<1471, 1471>>, <<1473, 1474>>, <<1476, 1477>>, <<1479, 1479>>,
      <<1524, 1524>>, <<1536, 1541>>, <<1552, 1562>>, <<1564, 1564>>,
      <<1600, 1600>>, <<1611, 1631>>, <<1648, 1648>>, <<1750, 1757>>,
      <<1759, 1768>>, <<1770, 1773>>, <<1807, 1807>>, <<1809, 1809>>,
      <<1840, 1866>>, <<1958, 1968>>, <<2027, 2037>>, <<2042, 2042>>,
      <<2045, 2045>>, <<2070, 2093>>, <<2137, 2139>>, <<2184, 2184>>,
      <<2192, 2193>>, <<2200, 2207>>, <<2249, 2306>>, <<2362, 2362>>,
      <<2364, 2364>>, <<2369, 2376>>, <<2381, 2381>>, <<2385, 2391>>,
      <<2402, 2403>>, <<2417, 2417>>, <<2433, 2433>>, <<2492, 2492>>,
      <<2497, 2500>>, <<2509, 2509>>, <<2530, 2531>>, <<2558, 2558>>,
      <<2561, 2562>>, <<2620, 2620>>, <<2625, 2626>>, <<2631, 2632>>,
      <<2635, 2637>>, <<2641, 2641>>, <<2672, 2673>>, <<2677, 2677>>,
      <<2689, 2690>>, <<2748, 2748>>, <<2753, 2757>>, <<2759, 2760>>,
      <<2765, 2765>>, <<2786, 2787>>, <<2810, 2815>>, <<2817, 2817>>,
      <<2876, 2876>>, <<2879, 2879>>, <<2881, 2884>>, <<2893, 2893>>,
      <<2901, 2902>>, <<2914, 2915>>, <<2946, 2946>>, <<3008, 3008>>,
      <<3021, 3021>>, <<3072, 3072>>, <<3076, 3076>>, <<3132, 3132>>,
      <<3134, 3136>>, <<3142, 3144>>, <<3146, 3149>>, <<3157, 3158>>,
      <<3170, 3171>>, <<3201, 3201>>, <<3260, 3260>>, <<3263, 3263>>,
      <<3270, 3270>>, <<3276, 3277>>, <<3298, 3299>>, <<3328, 3329>>,
      <<3387, 3388>>, <<3393, 3396>>, <<3405, 3405>>, <<3426, 3427>>,
      <<3457, 3457>>, <<3530, 3530>>, <<3538, 3540>>, <<3542, 3542>>,
      <<3633, 3633>>, <<3636, 3642>>, <<3654, 3662>>, <<3761, 3761>>,
      <<3764, 3772>>, <<3782, 3782>>, <<3784, 3789>>, <<3864, 3865>>,
      <<3893, 3893>>, <<3895, 3895>>, <<3897, 3897>>, <<3953, 3966>>,
      <<3968, 3972>>, <<3974, 3975>>, <<3981, 3991>>, <<3993, 4028>>,
      <<4038, 4038>>, <<4141, 4144>>, <<4146, 4151>>, <<4153, 4154>>,
      <<4157, 4158>>, <<4184, 4185>>, <<4190, 4192>>, <<4209, 4212>>,
      <<4226, 4226>>, <<4229, 4230>>, <<4237, 4237>>, <<4253, 4253>>,
      <<4348, 4348>>, <<4957, 4959>>, <<5906, 5908>>, <<5938, 5939>>,
      <<5970, 5971>>, <<6002, 6003>>, <<6068, 6069>>, <<6071, 6077>>,
      <<6086, 6086>>, <<6089, 6099>>, <<6103, 6103>>, <<6109, 6109>>,
      <<6155, 6159>>, <<6211, 6211>>, <<6277, 6278>>, <<6313, 6313>>,
      <<6432, 6434>>, <<6439, 6440>>, <<6450, 6450>>, <<6457, 6459>>,
      <<6679, 6680>>, <<6683, 6683>>, <<6742, 6742>>, <<6744, 6750>>,
      <<6752, 6752>>, <<6754, 6754>>, <<6757, 6764>>, <<6771, 6780>>,
      <<6783, 6783>>, <<6823, 6823>>, <<6832, 6862>>, <<6912, 6915>>,
      <<6964, 6964>>, <<6966, 6970>>, <<6972, 6972>>, <<6978, 6978>>,
      <<7019, 7027>>, <<7040, 7041>>, <<7074, 7077>>, <<7080, 7081>>,
      <<7083, 7085>>, <<7142, 7142>>, <<7144, 7145>>, <<7149, 7149>>,
      <<7151, 7153>>, <<7212, 7219>>, <<7222, 7223>>, <<7288, 7293>>,
      <<7376, 7378>>, <<7380, 7392>>, <<7394, 7400>>, <<7405, 7405>>,
      <<7412, 7412>>, <<7416, 7417>>, <<7468, 7530>>, <<7544, 7544>>,
      <<7579, 7679>>, <<8125, 8125>>, <<8127, 8129>>, <<8141, 8143>>,
      <<8157, 8159>>, <<8173, 8175>>, <<8189, 8190>>, <<8203, 8207>>,
      <<8216, 8217>>, <<8228, 8228>>, <<8231, 8231>>, <<8234, 8238>>,
      <<8288, 8292>>, <<8294, 8303>>, <<8305, 8305>>, <<8319, 8319>>,
      <<8336, 8348>>, <<8400, 8432>>, <<11388, 11389>>, <<11503, 11505>>,
      <<11631, 11631>>, <<11647, 11647>>, <<11744, 11775>>, <<11823, 11823>>,
      <<12293, 12293>>, <<12330, 12333>>, <<12337, 12341>>, <<12347, 12347>>,
      <<12441, 12446>>, <<12540, 12542>>, <<40981, 40981>>, <<42232, 42237>>,
      <<42508, 42508>>, <<42607, 42610>>, <<42612, 42621>>, <<42623, 42623>>,
      <<42652, 42655>>, <<42736, 42737>>, <<42752, 42785>>, <<42864, 42864>>,
      <<42888, 42890>>, <<42994, 42996>>, <<43000, 43001>>, <<43010, 43010>>,
      <<43014, 43014>>, <<43019, 43019>>, <<43045, 43046>>, <<43052, 43052>>,
      <<43204, 43205>>, <<43232, 43249>>, <<43263, 43263>>, <<43302, 43309>>,
      <<43335, 43345>>, <<43392, 43394>>, <<43443, 43443>>, <<43446, 43449>>,
      <<43452, 43453>>, <<43471, 43471>>, <<43493, 43494>>, <<43561, 43566>>,
      <<43569, 43570>>, <<43573, 43574>>, <<43587, 43587>>, <<43596, 43596>>,
      <<43632, 43632>>, <<43644, 43644>>, <<43696, 43696>>, <<43698, 43700>>,
      <<43703, 43704>>, <<43710, 43711>>, <<43713, 43713>>, <<43741, 43741>>,
      <<43756, 43757>>, <<43763, 43764>>, <<43766, 43766>>, <<43867, 43871>>,
      <<43881, 43883>>, <<44005, 44005>>, <<44008, 44008>>, <<44013, 44013>>,
      <<64286, 64286>>, <<64434, 64450>>, <<65024, 65039>>, <<65043, 65043>>,
      <<65056, 65071>>, <<65106, 65106>>, <<65109, 65109>>, <<65279, 65279>>,
      <<65287, 65287>>, <<65294, 65294>>, <<65306, 65306>>, <<65342, 65342>>,
      <<65344, 65344>>, <<65392, 65392>>, <<65438, 65439>>, <<65507, 65507>>,
      <<65529, 65531>>, <<66045, 66045>>, <<66272, 66272>>, <<66422, 66426>>,
      <<67456, 67461>>, <<67463, 67504>>, <<67506, 67514>>, <<68097, 68099>>,
      <<68101, 68102>>, <<68108, 68111>>, <<68152, 68154>>, <<68159, 68159>>,
      <<68325, 68326>>, <<68900, 68903>>, <<69291, 69292>>, <<69446, 69456>>,
      <<69506, 69509>>, <<69633, 69633>>, <<69688, 69702>>, <<69744, 69744>>,
      <<69747, 69748>>, <<69759, 69761>>, <<69811, 69814>>, <<69817, 69818>>,
      <<69821, 69821>>, <<69826, 69826>>, <<69837, 69837>>, <<69888, 69890>>,
      <<69927, 69931>>, <<69933, 69940>>, <<70003, 70003>>, <<70016, 70017>>,
      <<70070, 70078>>, <<70089, 70092>>, <<70095, 70095>>, <<70191, 70193>>,
      <<70196, 70196>>, <<70198, 70199>>, <<70206, 70206>>, <<70367, 70367>>,
      <<70371, 70378>>, <<70400, 70401>>, <<70459, 70460>>, <<70464, 70464>>,
      <<70502, 70508>>, <<70512, 70516>>, <<70712, 70719>>, <<70722, 70724>>,
      <<70726, 70726>>, <<70750, 70750>>, <<70835, 70840>>, <<70842, 70842>>,
      <<70847, 70848>>, <<70850, 70851>>, <<71090, 71093>>, <<71100, 71101>>,
      <<71103, 71104>>, <<71132, 71133>>, <<71219, 71226>>, <<71229, 71229>>,
      <<71231, 71232>>, <<71339, 71339>>, <<71341, 71341>>, <<71344, 71349>>,
      <<71351, 71351>>, <<71453, 71455>>, <<71458, 71461>>, <<71463, 71467>>,
      <<71727, 71735>>, <<71737, 71738>>, <<71995, 71996>>, <<71998, 71998>>,
      <<72003, 72003>>, <<72148, 72151>>, <<72154, 72155>>, <<72160, 72160>>,
      <<72193, 72202>>, <<72243, 72248>>, <<72251, 72254>>, <<72263, 72263>>,
      <<72273, 72278>>, <<72281, 72283>>, <<72330, 72342>>, <<72344, 72345>>,
      <<72752, 72758>>, <<72760, 72765>>, <<72767, 72767>>, <<72850, 72871>>,
      <<72874, 72880>>, <<72882, 72883>>, <<72885, 72886>>, <<73009, 73014>>,
      <<73018, 73018>>, <<73020, 73021>>, <<73023, 73029>>, <<73031, 73031>>,
      <<73104, 73105>>, <<73109, 73109>>, <<73111, 73111>>, <<73459, 73460>>,
      <<78896, 78904>>, <<92912, 92916>>, <<92976, 92982>>, <<92992, 92995>>,
      <<94031, 94031>>, <<94095, 94111>>, <<94176, 94177>>, <<94179, 94180>>,
      <<110576, 110579>>, <<110581, 110587>>, <<110589, 110590>>,
      <<113821, 113822>>, <<113824, 113827>>, <<118528, 118573>>,
      <<118576, 118598>>, <<119143, 119145>>, <<119155, 119170>>,
      <<119173, 119179>>, <<119210, 119213>>, <<119362, 119364>>,
      <<121344, 121398>>, <<121403, 121452>>, <<121461, 121461>>,
      <<121476, 121476>>, <<121499, 121503>>, <<121505, 121519>>,
      <<122880, 122886>>, <<122888, 122904>>, <<122907, 122913>>,
      <<122915, 122916>>, <<122918, 122922>>, <<123184, 123197>>,
      <<123566, 123566>>, <<123628, 123631>>, <<125136, 125142>>,
      <<125252, 125259>>, <<127995, 127999>>, <<917505, 917505>>,
      <<917536, 917631>>, <<917760, 917999>> }

InRanges(c, R) == \E r \in R : c >= r[1] /\ c <= r[2]

\* A capital sigma (931) is final when a cased letter stands before it and
\* none after it, case-ignorable code points in between passed over.
CasedBefore(s, i) ==
    \E j \in 1..(i - 1) :
        /\ InRanges(s[j], CasedRanges)
        /\ \A k \in (j + 1)..(i - 1) : InRanges(s[k], CaseIgnorableRanges)

CasedAfter(s, i) ==
    \E j \in (i + 1)..Len(s) :
        /\ InRanges(s[j], CasedRanges)
        /\ \A k \in (i + 1)..(j - 1) : InRanges(s[k], CaseIgnorableRanges)

\* The lower case of the code point at position i of s: 962 is the final
\* small sigma, and 304 (capital I with dot) lowers to "i" and a combining dot.
LowerAt(s, i) ==
    IF s[i] < 128 THEN <<IF s[i] >= 65 /\ s[i] <= 90 THEN s[i] + 32 ELSE s[i]>>
    ELSE IF s[i] = 931
    THEN <<IF CasedBefore(s, i) /\ ~CasedAfter(s, i) THEN 962 ELSE 963>>
    ELSE IF s[i] = 304 THEN <<105, 775>>
    ELSE <<LowerChar(s[i])>>

RECURSIVE LowerRange(_, _, _)
LowerRange(s, lo, hi) ==
    IF lo > hi THEN <<>>
    ELSE IF lo = hi THEN LowerAt(s, lo)
    ELSE LowerRange(s, lo, (lo + hi) \div 2) \o LowerRange(s, ((lo + hi) \div 2) + 1, hi)

\* str.lower
Lower(s) == LowerRange(s, 1, Len(s))

\* The letters A-Z lowered, as float compares "inf" and "nan".
AsciiLower(s) ==
    SubSeq([i \in 1..Len(s) |-> IF s[i] >= 65 /\ s[i] <= 90 THEN s[i] + 32 ELSE s[i]],
           1, Len(s))

Contains(s, c) == \E i \in 1..Len(s) : s[i] = c

\* Position of the first c in s (s contains c).
FirstIndex(s, c) ==
    CHOOSE i \in 1..Len(s) : s[i] = c /\ \A j \in 1..(i - 1) : s[j] # c

\* s.split(c, 1) when c is in s: the text before the first c and the text
\* after it.
SplitAt(s, i) == <<SubSeq(s, 1, i - 1), SubSeq(s, i + 1, Len(s))>>

SplitOnce(s, c) == SplitAt(s, FirstIndex(s, c))

\* The code points of the digit zero of every script with decimal digits
\* (Unicode 14); the nine that follow each are its digits 1 to 9.
DecimalZeros ==
    {48, 1632, 1776, 1984, 2406, 2534, 2662, 2790, 2918, 3046, 3174, 3302,
     3430, 3558, 3664, 3792, 3872, 4160, 4240, 6112, 6160, 6470, 6608, 6784,
     6800, 6992, 7088, 7232, 7248, 42528, 43216, 43264, 43472, 43504, 43600,
     44016, 65296, 66720, 68912, 69734, 69872, 69942, 70096, 70384, 70736,
     70864, 71248, 71360, 71472, 71904, 72016, 72784, 73040, 73120, 92768,
     92864, 93008, 120782, 120792, 120802, 120812, 120822, 123200, 123632,
     125264, 130032}

IsDecimal(c) == \E z \in DecimalZeros : c >= z /\ c <= z + 9

DecimalValue(c) == c - (CHOOSE z \in DecimalZeros : c >= z /\ c <= z + 9)

\* float reads a digit of any script as the ASCII digit and a space outside
\* ASCII as a blank.
FloatChar(c) ==
    IF IsDecimal(c) THEN 48 + DecimalValue(c)
    ELSE IF c > 127 /\ c \in Whitespace THEN 32
    ELSE c

FloatChars(s) == SubSeq([i \in 1..Len(s) |-> FloatChar(s[i])], 1, Len(s))

IsDigit(c) == c >= 48 /\ c <= 57

\* Every "_" stands between two digits.
UnderscoresGroupDigits(t) ==
    \A i \in 1..Len(t) :
        t[i] = 95 => i > 1 /\ i < Len(t) /\ IsDigit(t[i - 1]) /\ IsDigit(t[i + 1])

\* The blanks float drops at the two ends: tab, LF, VT, FF, CR, space.
FloatSpace == {9, 10, 11, 12, 13, 32}

\* The digits of a text of digits.
DigitValues(t) == SubSeq([i \in 1..Len(t) |-> t[i] - 48], 1, Len(t))

AllDigits(t) == \A i \in 1..Len(t) : IsDigit(t[i])

\* Digits with at most one "." among them and at least one digit.
IsMantissa(t) ==
    /\ \A i \in 1..Len(t) : IsDigit(t[i]) \/ t[i] = 46
    /\ Cardinality({i \in 1..Len(t) : t[i] = 46}) <= 1
    /\ \E i \in 1..Len(t) : IsDigit(t[i])

\* The number of digits after the ".".
FracDigits(t) == IF Contains(t, 46) THEN Len(t) - FirstIndex(t, 46) ELSE 0

Unsigned(t) == IF t # <<>> /\ t[1] \in {43, 45} THEN Tail(t) ELSE t

\* An exponent: an optional sign and at least one digit.
IsExponent(t) == Unsigned(t) # <<>> /\ AllDigits(Unsigned(t))

\* The value of an exponent's digits ds, held at ten million (exact for a
\* mantissa of fewer digits than that).
Capped(ds) == IF Len(ds) > 7 THEN 10000000 ELSE BToInt(DigitsValue(ds))

ExponentValue(t) ==
    IF t # <<>> /\ t[1] = 45 THEN -Capped(DropZeros(DigitValues(Unsigned(t))))
    ELSE Capped(DropZeros(DigitValues(Unsigned(t))))

\* The float of the mantissa's digits ds (the "." left out) times ten to x.
DigitsToFloat(neg, ds, x) ==
    IF \A i \in 1..Len(ds) : ds[i] = 0 THEN SignedZero(neg)
    ELSE DecimalToFloat(neg, DropZeros(ds), x)

MantissaToFloat(neg, t, x) ==
    DigitsToFloat(neg, DigitValues(SelectSeq(t, IsDigit)), x - FracDigits(t))

\* The position of the exponent's "e" or "E" (0 when there is none).
ExponentMark(t) ==
    IF \E i \in 1..Len(t) : t[i] \in {69, 101}
    THEN CHOOSE i \in 1..Len(t) : t[i] \in {69, 101} /\ \A j \in 1..(i - 1) : t[j] \notin {69, 101}
    ELSE 0

\* A numeral: a mantissa, then an optional exponent.
ParseNumeral(neg, t, mark) ==
    IF mark = 0
    THEN (IF IsMantissa(t) THEN <<MantissaToFloat(neg, t, 0)>> ELSE <<>>)
    ELSE IF IsMantissa(SubSeq(t, 1, mark - 1)) /\ IsExponent(SubSeq(t, mark + 1, Len(t)))
    THEN <<MantissaToFloat(neg, SubSeq(t, 1, mark - 1),
                           ExponentValue(SubSeq(t, mark + 1, Len(t))))>>
    ELSE <<>>

\* "inf", "infinity" and "nan" in any case, or a numeral.
ParseUnsigned(neg, t) ==
    IF AsciiLower(t) \in {<<105, 110, 102>>, <<105, 110, 102, 105, 110, 105, 116, 121>>}
    THEN <<Inf(neg)>>
    ELSE IF AsciiLower(t) = <<110, 97, 110>> THEN <<NaN>>
    ELSE ParseNumeral(neg, t, ExponentMark(t))

ParseSigned(t) ==
    IF t # <<>> /\ t[1] = 45 THEN ParseUnsigned(TRUE, Tail(t))
    ELSE IF t # <<>> /\ t[1] = 43 THEN ParseUnsigned(FALSE, Tail(t))
    ELSE ParseUnsigned(FALSE, t)

ParseGrouped(t) ==
    IF UnderscoresGroupDigits(t)
    THEN ParseSigned(StripOf(SelectSeq(t, LAMBDA c : c # 95), FloatSpace))
    ELSE <<>>

\* float(s): <<value>>, or <<>> where float raises ValueError.
ParseFloat(s) == ParseGrouped(FloatChars(s))

OrZero(v) == IF v = <<>> THEN Zero ELSE v[1]

\* try: float(s) / except: 0.0
FloatOrZero(s) == OrZero(ParseFloat(s))

\* The text of a digit sequence.
DigitText(ds) == SubSeq([i \in 1..Len(ds) |-> 48 + ds[i]], 1, Len(ds))

SignText(neg) == IF neg THEN <<45>> ELSE <<>>

\* The digits of a number of tenths as a decimal with one place.
TenthsText(ds) ==
    IF Len(ds) = 1 THEN <<48, 46, 48 + ds[1]>>
    ELSE DigitText(SubSeq(ds, 1, Len(ds) - 1)) \o <<46, 48 + ds[Len(ds)]>>

\* f"{x:.1f}": x rounded to tenths, ties to even, by its exact value.
OneDecimal(x) ==
    IF x.kind = "nan" THEN <<110, 97, 110>>
    ELSE IF x.kind = "inf" THEN SignText(x.neg) \o <<105, 110, 102>>
    ELSE SignText(x.neg)
             \o TenthsText(BDecimal(RoundHalfEven(BMulSmall(x.m, 10), x.e)))

\* f"{int(x)}" of a finite x: the fraction cut off.
IntText(x) ==
    SignText(x.neg /\ Truncated(x.m, x.e) # <<>>) \o DigitText(BDecimal(Truncated(x.m, x.e)))

\* The exception int(x) raises for a float that is no number or infinite.
IntFault(x) ==
    IF x.kind = "nan" THEN "ValueError"
    ELSE IF x.kind = "inf" THEN "OverflowError"
    ELSE "none"

(***************************************************************************)
(* The helpers of app.py.                                                  *)
(***************************************************************************)
\* A plausible slip: the centimetre factor forgotten.
to_mm_NoScale(val, u) == val

to_mm(val, u) == IF u = "cm" THEN FMul(val, FromInt(10)) ELSE val

\* Lines 140-148: years and the text that remains, <<years, s>> ("y" is 121).
YearsPart(s) ==
    IF Contains(s, 121)
    THEN <<FloatOrZero(SplitOnce(s, 121)[1]), SplitOnce(s, 121)[2]>>
    ELSE <<Zero, s>>

\* Lines 141, 149-154: months from the text that remains ("m" is 109).
MonthsPart(s) ==
    IF Contains(s, 109) THEN FloatOrZero(SplitOnce(s, 109)[1]) ELSE Zero

\* A plausible slip: the whole-text fallback taken when either part is 0.
AgeInMonths_EitherZero(years, months, s) ==
    FAdd(FMul(years, FromInt(12)),
         IF FEq(years, Zero) \/ FEq(months, Zero) THEN FloatOrZero(s) ELSE months)

\* Lines 156-161: the whole remaining text as months when both parts are 0,
\* then years * 12 + months.
AgeInMonths(years, months, s) ==
    FAdd(FMul(years, FromInt(12)),
         IF FEq(years, Zero) /\ FEq(months, Zero) THEN FloatOrZero(s) ELSE months)

AgeOfParts(ys) == AgeInMonths(ys[1], MonthsPart(ys[2]), ys[2])

parse_age_to_months(s) == AgeOfParts(YearsPart(Lower(Strip(s))))

\* The exception that ends format_age_range ("none": it returns): below 24
\* months int() is applied to min_mo, then to max_mo.
FormatFault(min_mo, max_mo) ==
    IF FLeq(FromInt(24), min_mo) THEN "none"
    ELSE IF IntFault(min_mo) # "none" THEN IntFault(min_mo)
    ELSE IntFault(max_mo)

\* format_age_range where it returns: f"{min_yr:.1f}-{max_yr:.1f} yrs" or
\* f"{int(min_mo)}-{int(max_mo)} mo", the two numbers joined by an en dash
\* (8211).
format_age_range(min_mo, max_mo) ==
    IF FLeq(FromInt(24), min_mo)
    THEN OneDecimal(FDiv(min_mo, FromInt(12))) \o <<8211>>
             \o OneDecimal(FDiv(max_mo, FromInt(12))) \o <<32, 121, 114, 115>>
    ELSE IntText(min_mo) \o <<8211>> \o IntText(max_mo) \o <<32, 109, 111>>

(***************************************************************************)
(* The organ selector's fixed data (app.py lines 43-60).                   *)
(***************************************************************************)
DefaultOrgan == "right_lobe_liver_length"

ordered_organs ==
    <<"right_lobe_liver_length", "spleen_length", "right_kidney_length",
      "left_kidney_length">>

OrganKeys == {ordered_organs[i] : i \in 1..Len(ordered_organs)}

display_names ==
    [k \in {"right_kidney_length", "left_kidney_length",
            "right_lobe_liver_length", "spleen_length"} |->
        CASE k = "right_kidney_length" -> "Right Kidney"
          [] k = "left_kidney_length" -> "Left Kidney"
          [] k = "right_lobe_liver_length" -> "Liver"
          [] k = "spleen_length" -> "Spleen"]

\* A plausible slip: the button stores the list's first key, not its own.
select_organ_FirstKey(name) == ordered_organs[1]

\* select_organ: the value stored in st.session_state.selected_organ.
select_organ(name) == name

(***************************************************************************)
(* Tables.  A DataFrame read from a CSV is its set of column names and its *)
(* rows in file order; a row holds a cell for each of the six columns the  *)
(* code reads, and a cell of a column the file lacks is never read (the    *)
(* attribute access faults first).                                         *)
(***************************************************************************)
AccessedColumns ==
    {"age_min_months", "age_max_months", "mean_mm", "sd_mm", "lower_mm", "upper_mm"}

Row(lo, hi, mean, sd, lower, upper) ==
    [age_min_months |-> lo, age_max_months |-> hi, mean_mm |-> mean,
     sd_mm |-> sd, lower_mm |-> lower, upper_mm |-> upper]

\* A row of whole numbers.
IntRow(lo, hi, mean, sd, lower, upper) ==
    Row(FromInt(lo), FromInt(hi), FromInt(mean), FromInt(sd), FromInt(lower),
        FromInt(upper))

Table(cols, rows) == [columns |-> cols, rows |-> rows]

\* (table.age_min_months <= age_months) & (age_months <= table.age_max_months)
InBand(r, age_months) ==
    FLeq(r.age_min_months, age_months) /\ FLeq(age_months, r.age_max_months)

\* match = table[...]: the rows the mask keeps, in table order.
MatchRows(table, age_months) ==
    SelectSeq(table.rows, LAMBDA r : InBand(r, age_months))

\* A plausible slip: the last of several matching rows taken.
FirstMatch_Last(match) == match[Len(match)]

\* match.iloc[0]
FirstMatch(match) == match[1]

\* table.age_min_months.min() of a table with rows: the least cell, cells
\* that are NaN passed over (NaN when every cell is).
MinAgeMin(table) ==
    IF \A i \in 1..Len(table.rows) : table.rows[i].age_min_months.kind = "nan" THEN NaN
    ELSE table.rows[CHOOSE i \in 1..Len(table.rows) :
                        /\ table.rows[i].age_min_months.kind # "nan"
                        /\ \A j \in 1..Len(table.rows) :
                              \/ table.rows[j].age_min_months.kind = "nan"
                              \/ FLess(table.rows[i].age_min_months,
                                       table.rows[j].age_min_months)
                              \/ (i <= j /\ FEq(table.rows[i].age_min_months,
                                                table.rows[j].age_min_months))
                   ].age_min_months

\* A plausible slip: the age compared with the first row's lower bound only.
FallbackRow_FirstRowMin(table, age_months) ==
    IF FLess(age_months, table.rows[1].age_min_months)
    THEN table.rows[1]
    ELSE table.rows[Len(table.rows)]

\* A plausible slip: the two boundary rows exchanged.
FallbackRow_Swapped(table, age_months) ==
    IF FLess(age_months, MinAgeMin(table))
    THEN table.rows[Len(table.rows)]
    ELSE table.rows[1]

\* table.iloc[0] if age_months < table.age_min_months.min() else table.iloc[-1]
\* (of a table with rows).
FallbackRow(table, age_months) ==
    IF FLess(age_months, MinAgeMin(table))
    THEN table.rows[1]
    ELSE table.rows[Len(table.rows)]

\* A plausible slip: the limits taken as exclusive.
Verdict_ExclusiveLimits(meas_mm, lower, upper) ==
    IF FLeq(meas_mm, lower) THEN "Too small"
    ELSE IF FLeq(upper, meas_mm) THEN "Too large"
    ELSE "Within normal limits"

\* The if / elif / else of lines 208-213.
Verdict(meas_mm, lower, upper) ==
    IF FLess(meas_mm, lower) THEN "Too small"
    ELSE IF FLess(upper, meas_mm) THEN "Too large"
    ELSE "Within normal limits"

(***************************************************************************)
(* The page a script run renders.  Optional parts are <<>> when the run    *)
(* did not write them and <<value>> when it did; fault names the exception *)
(* that ended the run ("none": the run reached the end of the script).     *)
(***************************************************************************)
\* The page of a run in which "Compute Z-Score" was not pressed: the
\* selected organ's label (line 79) and no result.
Page(organ_key) ==
    [label |-> display_names[organ_key], shown |-> FALSE, key |-> <<>>,
     age_months |-> <<>>, meas_mm |-> <<>>, row |-> <<>>, warning |-> <<>>,
     z |-> <<>>, verdict |-> <<>>, age_label |-> <<>>, reference |-> <<>>,
     fault |-> "none"]

\* row.mean_mm / 10 and so on when the unit is cm (lines 219-228).
Displayed(cell, u) == IF u = "cm" THEN FDiv(cell, FromInt(10)) ELSE cell

DisplayValues(row, u) ==
    [mean |-> Displayed(row.mean_mm, u), sd |-> Displayed(row.sd_mm, u),
     lower |-> Displayed(row.lower_mm, u), upper |-> Displayed(row.upper_mm, u)]

\* Lines 204-240: the verdict, the band's label and the reference values.
Interpret(table, u, p, row) ==
    IF ~({"lower_mm", "upper_mm"} \subseteq table.columns)
    THEN [p EXCEPT !.fault = "AttributeError"]
    ELSE IF FormatFault(row.age_min_months, row.age_max_months) # "none"
    THEN [p EXCEPT !.verdict = <<Verdict(p.meas_mm[1], row.lower_mm, row.upper_mm)>>,
                   !.fault = FormatFault(row.age_min_months, row.age_max_months)]
    ELSE [p EXCEPT !.verdict = <<Verdict(p.meas_mm[1], row.lower_mm, row.upper_mm)>>,
                   !.age_label = <<format_age_range(row.age_min_months, row.age_max_months)>>,
                   !.reference = <<DisplayValues(row, u)>>]

\* Lines 200-202: the z-score.
ZScore(table, u, p, row) ==
    IF ~({"mean_mm", "sd_mm"} \subseteq table.columns)
    THEN [p EXCEPT !.fault = "AttributeError"]
    ELSE Interpret(table, u,
                   [p EXCEPT !.z = <<FDiv(FSub(p.meas_mm[1], row.mean_mm), row.sd_mm)>>],
                   row)

\* Lines 193-196: the warning of a fallback row, naming its band.
Warn(table, u, p, row, warned) ==
    IF warned /\ FormatFault(row.age_min_months, row.age_max_months) # "none"
    THEN [p EXCEPT !.row = <<row>>,
                   !.fault = FormatFault(row.age_min_months, row.age_max_months)]
    ELSE ZScore(table, u,
                [p EXCEPT !.row = <<row>>,
                          !.warning = IF warned
                                      THEN <<format_age_range(row.age_min_months,
                                                              row.age_max_months)>>
                                      ELSE <<>>],
                row)

\* Lines 191-198: the first matching row, or the fallback row (table.iloc of
\* a table without rows raises IndexError).
PickRow(table, u, p, match) ==
    IF match # <<>> THEN Warn(table, u, p, FirstMatch(match), FALSE)
    ELSE IF table.rows = <<>> THEN [p EXCEPT !.fault = "IndexError"]
    ELSE Warn(table, u, p, FallbackRow(table, p.age_months[1]), TRUE)

\* Lines 187-190: the rows whose band holds the age.
FindRows(table, u, p) ==
    IF ~({"age_min_months", "age_max_months"} \subseteq table.columns)
    THEN [p EXCEPT !.fault = "AttributeError"]
    ELSE PickRow(table, u, p, MatchRows(table, p.age_months[1]))

\* Line 184: table = norms[key].
LookUp(catalog, u, p) ==
    IF p.key[1] \notin DOMAIN catalog
    THEN [p EXCEPT !.fault = "KeyError"]
    ELSE FindRows(catalog[p.key[1]], u, p)

\* The body of "if st.button('Compute Z-Score'):" (lines 179-240), statement
\* by statement, up to the first exception.
ScoreRun(catalog, organ_key, text, value, u) ==
    LookUp(catalog, u,
           [Page(organ_key) EXCEPT !.shown = TRUE, !.key = <<organ_key>>,
                                   !.age_months = <<parse_age_to_months(text)>>,
                                   !.meas_mm = <<to_mm(value, u)>>])

\* The request a compute run reads from the session and the widgets.
Request == [organ |-> selected_organ, age |-> age_input,
            value |-> measurement_value, unit |-> unit]

(***************************************************************************)
(* Input domains.                                                          *)
(***************************************************************************)
\* The tables of the catalogs the application is run with: bands in months,
\* lengths in millimetres.
LiverTable ==
    Table(AccessedColumns,
          <<IntRow(0, 12, 50, 5, 40, 60), IntRow(12, 24, 70, 5, 60, 80),
            IntRow(24, 216, 90, 10, 70, 110)>>)

SpleenTable ==
    Table(AccessedColumns,
          <<IntRow(0, 12, 40, 4, 32, 48), IntRow(24, 216, 80, 8, 64, 96)>>)

RightKidneyTable ==
    Table(AccessedColumns,
          <<IntRow(0, 24, 45, 5, 35, 55), IntRow(24, 216, 75, 5, 65, 85)>>)

LeftKidneyTable ==
    Table(AccessedColumns, <<IntRow(0, 216, 60, 10, 45, 60)>>)

FullCatalog ==
    [k \in OrganKeys |->
        CASE k = "right_lobe_liver_length" -> LiverTable
          [] k = "spleen_length" -> SpleenTable
          [] k = "right_kidney_length" -> RightKidneyTable
          [] k = "left_kidney_length" -> LeftKidneyTable]

\* The catalog with the datasets of the organs in keep only.
Restrict(catalog, keep) == [k \in DOMAIN catalog \cap keep |-> catalog[k]]

\* The catalog with one dataset's file lacking the columns in gone.
WithoutColumns(catalog, key, gone) ==
    [catalog EXCEPT ![key] = Table(catalog[key].columns \ gone, catalog[key].rows)]

\* What data/*.csv may hold when the process starts: every dataset; a
\* dataset absent and another with no rows; a dataset without a column; a
\* dataset without two columns and another with a blank cell (read_csv makes
\* it NaN).
Catalogs ==
    { FullCatalog,
      Restrict([FullCatalog EXCEPT !["left_kidney_length"] = Table(AccessedColumns, <<>>)],
               OrganKeys \ {DefaultOrgan}),
      WithoutColumns(FullCatalog, DefaultOrgan, {"sd_mm"}),
      WithoutColumns([FullCatalog EXCEPT !["left_kidney_length"] =
                         Table(AccessedColumns,
                               <<Row(NaN, FromInt(12), FromInt(40), FromInt(4),
                                     FromInt(32), FromInt(48))>>)],
                     "spleen_length", {"age_max_months", "upper_mm"}) }

\* Age texts typed into the application: "", "2y3m", "-5".
AgeTexts ==
    {
      <<>>, <<50, 121, 51, 109>>, <<45, 53>> }

\* k / 2 as a float.
Half(k) == FDiv(FromInt(k), FromInt(2))

\* Measurements entered into the application (the default 0.0, and 4.5).
MeasurementValues == { Zero, Half(9) }

Units == {"cm", "mm"}

\* Age texts for the parser: every text of at most MaxLen characters over
\* Alphabet ("1", "2", "y", "m", "Y", tab, "-", "e"), and the texts of
\* ExampleTexts: the documented examples, decimal points, blanks of every
\* kind at the ends and inside, exponents, "inf" and "nan", digit groups,
\* digits of other scripts, and numbers at the limits of the floats:
\*   "2y3m" "27m" "1.5y" "garbage" "2y3" "1.5" ".5y" "2.5m" "1.y" "."
\*   "1y.5m" "0y5" "0m3" "3m2y" "1y-12m" " 2 y 3 m " "+1Y6M" "1.5.y" "y1.5"
\*   TAB"5" " "TAB"1"TAB" " "5"LF NBSP"5" FS"5" "1"FS"y" "1e3" "1E2" "1e-1"
\*   "1e1y" "1e1m" "inf" "nan" "Infinity" "-inf" "infy" "nanm" "infy-infm"
\*   "1_0" "1__0" "_1" "1_0y1_2m" "0.2y0.6m" "0.1y" "-0y-0" "1e400"
\*   "-1e-400" "1e308y" "4.9e-324" "1e" "0x10", "3m" with an Arabic-Indic 3,
\*   "12" in full-width digits, "9007199254740993", and letters outside
\*   ASCII: a capital E with acute, "1" and a capital sigma, "2" and the
\*   kelvin sign, a capital I with dot.
Alphabet == {49, 50, 121, 109, 89, 9, 45, 101}

ExampleTexts ==
    {
      <<50, 121, 51, 109>>, <<50, 55, 109>>, <<49, 46, 53, 121>>,
      <<103, 97, 114, 98, 97, 103, 101>>, <<50, 121, 51>>, <<49, 46, 53>>,
      <<46, 53, 121>>, <<50, 46, 53, 109>>, <<49, 46, 121>>, <<46>>,
      <<49, 121, 46, 53, 109>>, <<48, 121, 53>>, <<48, 109, 51>>,
      <<51, 109, 50, 121>>, <<49, 121, 45, 49, 50, 109>>,
      <<32, 50, 32, 121, 32, 51, 32, 109, 32>>, <<43, 49, 89, 54, 77>>,
      <<49, 46, 53, 46, 121>>, <<121, 49, 46, 53>>, <<9, 53>>,
      <<32, 9, 49, 9, 32>>, <<53, 10>>, <<160, 53>>, <<28, 53>>,
      <<49, 28, 121>>, <<49, 101, 51>>, <<49, 69, 50>>, <<49, 101, 45, 49>>,
      <<49, 101, 49, 121>>, <<49, 101, 49, 109>>, <<105, 110, 102>>,
      <<110, 97, 110>>, <<73, 110, 102, 105, 110, 105, 116, 121>>,
      <<45, 105, 110, 102>>, <<105, 110, 102, 121>>, <<110, 97, 110, 109>>,
      <<105, 110, 102, 121, 45, 105, 110, 102, 109>>, <<49, 95, 48>>,
      <<49, 95, 95, 48>>, <<95, 49>>, <<49, 95, 48, 121, 49, 95, 50, 109>>,
      <<48, 46, 50, 121, 48, 46, 54, 109>>, <<48, 46, 49, 121>>,
      <<45, 48, 121, 45, 48>>, <<49, 101, 52, 48, 48>>,
      <<45, 49, 101, 45, 52, 48, 48>>, <<49, 101, 51, 48, 56, 121>>,
      <<52, 46, 57, 101, 45, 51, 50, 52>>, <<49, 101>>, <<48, 120, 49, 48>>,
      <<1635, 109>>, <<65297, 65298>>,
      <<57, 48, 48, 55, 49, 57, 57, 50, 53, 52, 55, 52, 48, 57, 57, 51>>,
      <<201>>, <<49, 931>>, <<50, 8490>>, <<304>> }

ParseTexts == UNION {[1..n -> Alphabet] : n \in 0..MaxLen} \cup ExampleTexts

\* Tables for row selection: every sequence of at most MaxRows bands with
\* edges in BandEdges, ordered or not, overlapping or not, with or without
\* gaps, and with one band whose bounds are exchanged (the loader checks no
\* band); the row at position i carries statistics that tell it from the
\* rows at other positions.
BandEdges == {0, 1, 3, 24}

Bands == {b \in BandEdges \X BandEdges : b[1] <= b[2]} \cup {<<24, -3>>}

TableOfBands(bands) ==
    Table(AccessedColumns,
          [i \in 1..Len(bands) |->
              IntRow(bands[i][1], bands[i][2], 50 + i, 5, 40 + i, 60 + i)])

SelectTables == {TableOfBands(bs) : bs \in UNION {[1..n -> Bands] : n \in 0..MaxRows}}

\* Ages for row selection: "", "-1", ".5", "1", "1.5", "2", "3", "2y", "30",
\* "nan", "inf", "-inf".
SelectAgeTexts ==
    {
      <<>>, <<45, 49>>, <<46, 53>>, <<49>>, <<49, 46, 53>>, <<50>>, <<51>>,
      <<50, 121>>, <<51, 48>>, <<110, 97, 110>>, <<105, 110, 102>>,
      <<45, 105, 110, 102>> }

\* Rows and measurements for scoring: one band that holds every age, its
\* statistics drawn freely (the loader checks neither sd_mm > 0 nor
\* lower_mm <= upper_mm).
ScoreRows ==
    {IntRow(0, 216, mean, sd, lower, upper) :
        mean \in {3, 10}, sd \in {0, 1, 2, 3}, lower \in {2, 5}, upper \in {3, 5, 20}}

\* Halves, and 0.07, whose tenfold is not the float nearest to 0.7.
ScoreValues ==
    {Half(k) : k \in {0, 1, 3, 4, 5, 8, 10, 11, 40, 41}} \cup {FDiv(FromInt(7), FromInt(100))}

(***************************************************************************)
(* Initial states.                                                         *)
(***************************************************************************)
\* After the first script run: the catalog loaded and cached (lines 9-21),
\* the default organ selected (lines 42-43), the widgets at their defaults.
Init ==
    /\ norms \in Catalogs
    /\ selected_organ = DefaultOrgan
    /\ age_input = <<>>
    /\ measurement_value = Zero
    /\ unit = "cm"
    /\ out = Page(DefaultOrgan)
    /\ first_score = <<>>

\* The parser's inputs: any age text, the full catalog.
InitParse ==
    /\ norms = FullCatalog
    /\ selected_organ = DefaultOrgan
    /\ age_input \in ParseTexts
    /\ measurement_value = Zero
    /\ unit = "cm"
    /\ out = Page(DefaultOrgan)
    /\ first_score = <<>>

\* Row selection's inputs: any table for the selected organ, any age.
InitSelect ==
    /\ norms \in {[k \in {DefaultOrgan} |-> t] : t \in SelectTables}
    /\ selected_organ = DefaultOrgan
    /\ age_input \in SelectAgeTexts
    /\ measurement_value = Zero
    /\ unit = "cm"
    /\ out = Page(DefaultOrgan)
    /\ first_score = <<>>

\* Scoring's inputs: any row, any measurement in either unit.
InitScore ==
    /\ norms \in {[k \in {DefaultOrgan} |-> Table(AccessedColumns, <<r>>)] : r \in ScoreRows}
    /\ selected_organ = DefaultOrgan
    /\ age_input = <<>>
    /\ measurement_value \in ScoreValues
    /\ unit \in Units
    /\ out = Page(DefaultOrgan)
    /\ first_score = <<>>

(***************************************************************************)
(* Script runs.                                                            *)
(***************************************************************************)
\* A run started by pressing the organ button of key (lines 67-79).
OrganButton(key) ==
    /\ selected_organ' = select_organ(key)
    /\ out' = Page(selected_organ')
    /\ UNCHANGED <<norms, age_input, measurement_value, unit, first_score>>

\* A run started by submitting another age text (lines 120-123).
AgeInput(text) ==
    /\ text # age_input
    /\ age_input' = text
    /\ out' = Page(selected_organ)
    /\ UNCHANGED <<norms, selected_organ, measurement_value, unit, first_score>>

\* A run started by entering another measurement (lines 126-130).
MeasurementInput(value) ==
    /\ value # measurement_value
    /\ measurement_value' = value
    /\ out' = Page(selected_organ)
    /\ UNCHANGED <<norms, selected_organ, age_input, unit, first_score>>

\* A run started by choosing the other unit (line 131).
UnitRadio(u) ==
    /\ u # unit
    /\ unit' = u
    /\ out' = Page(selected_organ)
    /\ UNCHANGED <<norms, selected_organ, age_input, measurement_value, first_score>>

\* The history of the session's scores: the first scored request, the page
\* it produced, and whether another request has been scored since.
Remember(history, request, page) ==
    IF history = <<>>
    THEN <<[request |-> request, page |-> page, between |-> FALSE]>>
    ELSE IF request # history[1].request
    THEN <<[history[1] EXCEPT !.between = TRUE]>>
    ELSE history

\* A plausible slip: the scored table consumed by the run (its first row
\* dropped from the cached catalog).
ComputeZScore_ConsumesRow ==
    /\ UNCHANGED <<selected_organ, age_input, measurement_value, unit>>
    /\ norms' = IF selected_organ \in DOMAIN norms /\ norms[selected_organ].rows # <<>>
                THEN [norms EXCEPT ![selected_organ].rows = Tail(@)]
                ELSE norms
    /\ out' = ScoreRun(norms, selected_organ, age_input, measurement_value, unit)
    /\ first_score' = Remember(first_score, Request, out')

\* A run started by pressing "Compute Z-Score" (lines 179-240): it reads the
\* session and the widgets and writes the page.  first_score is a history
\* variable (see Remember).
ComputeZScore ==
    /\ UNCHANGED <<norms, selected_organ, age_input, measurement_value, unit>>
    /\ out' = ScoreRun(norms, selected_organ, age_input, measurement_value, unit)
    /\ first_score' = Remember(first_score, Request, out')

Next ==
    \/ \E key \in OrganKeys : OrganButton(key)
    \/ \E text \in AgeTexts : AgeInput(text)
    \/ \E value \in MeasurementValues : MeasurementInput(value)
    \/ \E u \in Units : UnitRadio(u)
    \/ ComputeZScore

\* The application: any catalog, any sequence of runs.
Spec == Init /\ [][Next]_vars

\* The score of one request, the request drawn by the initial state.
NextCompute == ComputeZScore

SpecParse == InitParse /\ [][NextCompute]_vars

SpecSelect == InitSelect /\ [][NextCompute]_vars

SpecScore == InitScore /\ [][NextCompute]_vars

(***************************************************************************)
(* Properties.                                                             *)
(***************************************************************************)
\* The table the scored request looked up, the age it was scored at, and
\* the positions of the rows whose band holds that age.
ScoredRows == norms[out.key[1]].rows

ScoredAge == out.age_months[1]

Hits ==
    {i \in 1..Len(ScoredRows) :
        /\ FLeq(ScoredRows[i].age_min_months, ScoredAge)
        /\ FLeq(ScoredAge, ScoredRows[i].age_max_months)}

Least(S) == CHOOSE i \in S : \A j \in S : i <= j

\* The age is below every band's lower bound / above every band's upper bound.
BelowAll == \A i \in 1..Len(ScoredRows) : FLess(ScoredAge, ScoredRows[i].age_min_months)

AboveAll == \A i \in 1..Len(ScoredRows) : FLess(ScoredRows[i].age_max_months, ScoredAge)

\* C1: when some row's band holds the age (both bounds inclusive), the row
\* used is the first such row in table order and no out-of-range warning is
\* written; and a row is used without a warning only when such a row exists.
C1_FirstMatchingRowInRange ==
    out.row # <<>> =>
        /\ Hits # {} => out.row = <<ScoredRows[Least(Hits)]>> /\ out.warning = <<>>
        /\ out.warning = <<>> => Hits # {}

\* C1's case: several overlapping rows hold the age, the first of them is
\* not the table's first row, and it is the row used.
C1_Witness ==
    /\ out.row # <<>>
    /\ Cardinality(Hits) >= 2
    /\ Least(Hits) > 1
    /\ out.row = <<ScoredRows[Least(Hits)]>>
    /\ ScoredAge = ScoredRows[Least(Hits)].age_max_months

\* C2: for a table with rows and an age no band holds, the row used is the
\* first row when the age is below every age_min_months and the last row
\* otherwise; the warning names the band of the row used, and the z-score
\* and the verdict are still written.
C2_BoundaryFallback ==
    out.shown /\ ScoredRows # <<>> /\ Hits = {} =>
        /\ out.row = <<IF BelowAll THEN ScoredRows[1] ELSE ScoredRows[Len(ScoredRows)]>>
        /\ out.warning = <<format_age_range(out.row[1].age_min_months,
                                            out.row[1].age_max_months)>>
        /\ out.z # <<>> /\ out.verdict # <<>> /\ out.fault = "none"

\* C2's case: the age lies above the first band and below the last band of
\* an ascending three-row table, in no band, and the last row is used with
\* a warning.
C2_Witness ==
    /\ out.shown /\ Len(ScoredRows) = 3 /\ Hits = {}
    /\ FLess(ScoredRows[1].age_max_months, ScoredAge)
    /\ FLess(ScoredAge, ScoredRows[3].age_min_months)
    /\ out.row = <<ScoredRows[3]>> /\ out.row # <<ScoredRows[1]>>
    /\ out.warning # <<>>

\* How far an age lies from a band (0 inside it).
Distance(r, age) ==
    IF FLess(age, r.age_min_months) THEN FSub(r.age_min_months, age)
    ELSE IF FLess(r.age_max_months, age) THEN FSub(age, r.age_max_months)
    ELSE Zero

FirstRow == ScoredRows[1]

LastRow == ScoredRows[Len(ScoredRows)]

UsedIsNearestBoundary ==
    /\ FLeq(Distance(out.row[1], ScoredAge), Distance(FirstRow, ScoredAge))
    /\ FLeq(Distance(out.row[1], ScoredAge), Distance(LastRow, ScoredAge))

\* Bands of the data model (age_min_months <= age_max_months) in ascending
\* order of both bounds.
Ascending ==
    /\ \A i \in 1..Len(ScoredRows) :
          FLeq(ScoredRows[i].age_min_months, ScoredRows[i].age_max_months)
    /\ \A i, j \in 1..Len(ScoredRows) :
          i < j => /\ FLeq(ScoredRows[i].age_min_months, ScoredRows[j].age_min_months)
                   /\ FLeq(ScoredRows[i].age_max_months, ScoredRows[j].age_max_months)

\* C8 as stated: for an age no band holds, the row used is the first or the
\* last row and neither boundary band is strictly nearer to the age than the
\* one used, also when the age lies in a gap between two bands.
C8_NearestBoundaryBand ==
    out.row # <<>> /\ Hits = {} =>
        /\ out.row[1] \in {FirstRow, LastRow}
        /\ UsedIsNearestBoundary

\* C8 amended: for an age no band holds, the row used is the first or the
\* last row; it is the nearest of the two when the bands are well-formed and
\* in ascending order and the age lies below every band or above every band;
\* when the age lies between bands the last row is used, nearest or not.
C8_NearestOutsideLastInGaps ==
    out.row # <<>> /\ Hits = {} =>
        /\ out.row[1] \in {FirstRow, LastRow}
        /\ Ascending /\ (BelowAll \/ AboveAll) => UsedIsNearestBoundary
        /\ ~BelowAll /\ ~AboveAll => out.row = <<LastRow>>

\* C8's case: an ascending table, the age in a gap and strictly nearer to
\* the first band than to the last band, the last row used.
C8_Witness ==
    /\ out.row # <<>> /\ Hits = {} /\ Ascending
    /\ ~BelowAll /\ ~AboveAll
    /\ FLess(FirstRow.age_max_months, ScoredAge)
    /\ FLess(ScoredAge, LastRow.age_min_months)
    /\ FLess(Distance(FirstRow, ScoredAge), Distance(LastRow, ScoredAge))
    /\ out.row = <<LastRow>>

\* C3: for a row of the data model (lower_mm <= upper_mm) the verdict is
\* "Too small" exactly when the measurement in mm is below lower_mm, "Too
\* large" exactly when it is above upper_mm, and "Within normal limits"
\* otherwise, so at either limit; the rows drawn differ in mean and sd at
\* the same limits, and the z-score plays no part.
C3_VerdictByInclusiveRange ==
    out.verdict # <<>> /\ FLeq(out.row[1].lower_mm, out.row[1].upper_mm) =>
        /\ out.verdict[1] = "Too small" <=> FLess(out.meas_mm[1], out.row[1].lower_mm)
        /\ out.verdict[1] = "Too large" <=> FLess(out.row[1].upper_mm, out.meas_mm[1])
        /\ out.verdict[1] = "Within normal limits"
              <=> /\ ~FLess(out.meas_mm[1], out.row[1].lower_mm)
                  /\ ~FLess(out.row[1].upper_mm, out.meas_mm[1])

\* C3's case: a measurement equal to upper_mm, more than two standard
\* deviations above the mean, judged within normal limits.
C3_Witness ==
    /\ out.verdict = <<"Within normal limits">>
    /\ out.meas_mm = <<out.row[1].upper_mm>>
    /\ FLess(Zero, out.row[1].sd_mm)
    /\ FLess(FromInt(2), out.z[1])

\* The measurement in mm by the claim's rule: ten times a value in cm, a
\* value in mm as it is.
MillimetresOfInput ==
    IF unit = "cm" THEN FMul(FromInt(10), measurement_value) ELSE measurement_value

\* C5: the measurement scored is 10 * x for x in cm and x for x in mm, and
\* it is this value, not the raw input, that the z-score is computed from
\* and that is compared with the row's limits (lower_mm first, as the code
\* does, which matters only for a row with lower_mm > upper_mm).
C5_ConvertedValueScored ==
    out.verdict # <<>> =>
        /\ out.meas_mm = <<MillimetresOfInput>>
        /\ out.z = <<FDiv(FSub(MillimetresOfInput, out.row[1].mean_mm), out.row[1].sd_mm)>>
        /\ out.verdict[1] = "Too small"
              <=> FLess(MillimetresOfInput, out.row[1].lower_mm)
        /\ out.verdict[1] = "Too large"
              <=> /\ FLess(out.row[1].upper_mm, MillimetresOfInput)
                  /\ ~FLess(MillimetresOfInput, out.row[1].lower_mm)

\* C5's case: a value in cm whose raw number is below lower_mm and whose
\* tenfold is not, judged on the tenfold.
C5_Witness ==
    /\ out.verdict # <<>> /\ unit = "cm"
    /\ FLess(measurement_value, out.row[1].lower_mm)
    /\ out.verdict[1] # "Too small"
    /\ out.meas_mm = <<FMul(FromInt(10), measurement_value)>>

\* The age text as the claim reads it: trimmed and lower-cased, the number
\* before the first "y", the text after it, the number before the next "m".
Canonical == Lower(Strip(age_input))

YearMarks == {i \in 1..Len(Canonical) : Canonical[i] = 121}

Remainder ==
    IF YearMarks = {} THEN Canonical
    ELSE SubSeq(Canonical, Least(YearMarks) + 1, Len(Canonical))

MonthMarks == {i \in 1..Len(Remainder) : Remainder[i] = 109}

NumberOrZero(s) == IF ParseFloat(s) = <<>> THEN Zero ELSE ParseFloat(s)[1]

ClaimedYears ==
    IF YearMarks = {} THEN Zero
    ELSE NumberOrZero(SubSeq(Canonical, 1, Least(YearMarks) - 1))

MarkedMonths ==
    IF MonthMarks = {} THEN Zero
    ELSE NumberOrZero(SubSeq(Remainder, 1, Least(MonthMarks) - 1))

ClaimedMonths ==
    IF FEq(ClaimedYears, Zero) /\ FEq(MarkedMonths, Zero) THEN NumberOrZero(Remainder)
    ELSE MarkedMonths

ClaimedAge == FAdd(FMul(FromInt(12), ClaimedYears), ClaimedMonths)

\* C4: for every age text the parser returns a number (no exception ends
\* the run): years * 12 + months, with the whole remaining text read as
\* months only when both parts are 0; in particular "2y3m" and "27m" give
\* 27, "1.5y" gives 18, "" and "garbage" give 0, and "2y3" gives 24.
C4_ParseAgeTotalAndStructured ==
    out.shown =>
        /\ out.age_months = <<ClaimedAge>>
        /\ out.fault = "none"
        /\ age_input \in {<<50, 121, 51, 109>>, <<50, 55, 109>>} => out.age_months = <<FromInt(27)>>
        /\ age_input = <<49, 46, 53, 121>> => out.age_months = <<FromInt(18)>>
        /\ age_input \in {<<>>, <<103, 97, 114, 98, 97, 103, 101>>} => out.age_months = <<Zero>>
        /\ age_input = <<50, 121, 51>> => out.age_months = <<FromInt(24)>>

\* C4's case: a number after a nonzero year part, with no "m", is ignored
\* (the text is "2y3").
C4_Witness ==
    /\ out.shown
    /\ age_input = <<50, 121, 51>>
    /\ ClaimedYears = FromInt(2) /\ MonthMarks = {}
    /\ NumberOrZero(Remainder) = FromInt(3)
    /\ out.age_months = <<FromInt(24)>>

\* C6 as stated: a score requested for an organ key absent from the catalog
\* ends in an explicit error result, and no lookup fault ends the run.
C6_UnknownOrganRejected ==
    out.shown /\ out.key[1] \notin DOMAIN norms => out.fault = "none"

\* The catalog holds a dataset for every organ of the selector, each with
\* every column the scoring reads.
CatalogComplete ==
    \A k \in OrganKeys :
        k \in DOMAIN norms /\ AccessedColumns \subseteq norms[k].columns

\* C7 as stated: a missing dataset or a missing column fails the load, so a
\* score is requested only of a complete catalog and no missing column
\* surfaces while a request is scored.
C7_FailFastLoad ==
    out.shown => CatalogComplete /\ out.fault # "AttributeError"

\* C9: a request scored again, whatever was scored in between, gives the
\* page its first score gave; no run changes the catalog, and a compute run
\* does not change the selected organ.
C9_ScoringIdempotent ==
    /\ [](out.shown /\ first_score # <<>> /\ Request = first_score[1].request
            => out = first_score[1].page)
    /\ [][/\ norms' = norms
          /\ ComputeZScore => selected_organ' = selected_organ]_vars

\* C9's case: the first request scored again after another request was
\* scored, with a full result.
C9_Witness ==
    /\ out.shown /\ first_score # <<>>
    /\ first_score[1].between
    /\ Request = first_score[1].request
    /\ out.verdict # <<>>
    /\ out = first_score[1].page

\* C10: the selected organ starts as right_lobe_liver_length and is always
\* one of the four keys of ordered_organs, with a label in display_names
\* (the label the page shows); it changes only in a run started by an organ
\* button and is then that button's key; a compute run scores the organ
\* selected and leaves the selection as it was.
C10_SelectedOrganInvariant ==
    /\ selected_organ = DefaultOrgan
    /\ [](/\ selected_organ \in OrganKeys
          /\ selected_organ \in DOMAIN display_names
          /\ out.label = display_names[selected_organ])
    /\ [][/\ selected_organ' # selected_organ => \E k \in OrganKeys : OrganButton(k)
          /\ \A k \in OrganKeys : OrganButton(k) => selected_organ' = k
          /\ ComputeZScore => /\ selected_organ' = selected_organ
                              /\ out'.key = <<selected_organ>>]_vars

\* C10's case: an organ other than the default selected by its button and
\* then scored.
C10_Witness ==
    /\ selected_organ = "left_kidney_length"
    /\ out.shown /\ out.key = <<selected_organ>>
    /\ out.label = "Left Kidney"

====
